---- MODULE Spec2Model ----
(***************************************************************************)
(* wifi-intel: the aggregation of a Wi-Fi scan CSV into per-BSSID          *)
(* summaries, as done by the PDF report (report/generate_report.py) and by *)
(* the Flask viewer (web/app.py).                                          *)
(*                                                                         *)
(* A CSV file is a header (the set of column names) and a sequence of rows *)
(* of text cells.  Text is a sequence of one-character strings, so that    *)
(* parsing, formatting, sorting and joining are computed character by      *)
(* character as Python and pandas do.                                      *)
(***************************************************************************)
EXTENDS Integers, Sequences, FiniteSets, TLC

VARIABLES cols, csv, resp

vars == <<cols, csv, resp>>

(***************************************************************************)
(* Text                                                                    *)
(***************************************************************************)

\* The code point of a character (Python compares str by code point).
Ord(c) ==
    CASE c = " " -> 32 [] c = "(" -> 40 [] c = ")" -> 41 [] c = "," -> 44
      [] c = "-" -> 45 [] c = "." -> 46
      [] c = "0" -> 48 [] c = "1" -> 49 [] c = "2" -> 50 [] c = "3" -> 51
      [] c = "4" -> 52 [] c = "5" -> 53 [] c = "6" -> 54 [] c = "7" -> 55
      [] c = "8" -> 56 [] c = "9" -> 57 [] c = ":" -> 58
      [] c = "A" -> 65 [] c = "B" -> 66 [] c = "C" -> 67 [] c = "F" -> 70
      [] c = "a" -> 97 [] c = "b" -> 98 [] c = "c" -> 99 [] c = "e" -> 101
      [] c = "f" -> 102 [] c = "k" -> 107 [] c = "n" -> 110 [] c = "o" -> 111
      [] c = "r" -> 114 [] c = "s" -> 115 [] c = "u" -> 117 [] c = "w" -> 119
      [] c = "z" -> 122

\* str.lower() on one character.
Lower(c) ==
    CASE c = "A" -> "a" [] c = "B" -> "b" [] c = "C" -> "c" [] c = "F" -> "f"
      [] OTHER -> c

\* a < b for Python str: the first differing code point decides, a proper
\* prefix is smaller.
RECURSIVE LexLess(_, _)
LexLess(a, b) ==
    IF b = <<>> THEN FALSE
    ELSE IF a = <<>> THEN TRUE
    ELSE IF Head(a) = Head(b) THEN LexLess(Tail(a), Tail(b))
    ELSE Ord(Head(a)) < Ord(Head(b))

\* sorted(S) for a set of str.
RECURSIVE SortedTexts(_)
SortedTexts(S) ==
    IF S = {} THEN <<>>
    ELSE LET m == CHOOSE x \in S : \A y \in S \ {x} : LexLess(x, y)
         IN  <<m>> \o SortedTexts(S \ {m})

CommaSpace == <<",", " ">>

\* ", ".join(seq)
RECURSIVE Join(_)
Join(parts) ==
    IF parts = <<>> THEN <<>>
    ELSE IF Len(parts) = 1 THEN parts[1]
    ELSE parts[1] \o CommaSpace \o Join(Tail(parts))

\* t[:n]
Take(t, n) == IF Len(t) <= n THEN t ELSE SubSeq(t, 1, n)

IsDigit(c) == c \in {"0", "1", "2", "3", "4", "5", "6", "7", "8", "9"}

DigitVal(c) == Ord(c) - 48

DigitChar(d) == <<"0", "1", "2", "3", "4", "5", "6", "7", "8", "9">>[d + 1]

\* The value of a run of decimal digits.
RECURSIVE DigitsVal(_)
DigitsVal(t) ==
    IF t = <<>> THEN 0
    ELSE 10 * DigitsVal(SubSeq(t, 1, Len(t) - 1)) + DigitVal(t[Len(t)])

AllDigits(t) == t # <<>> /\ \A i \in 1..Len(t) : IsDigit(t[i])

\* The text is a decimal integer literal: an optional sign and digits.
IsIntText(t) ==
    IF t # <<>> /\ Head(t) = "-" THEN AllDigits(Tail(t)) ELSE AllDigits(t)

ParseInt(t) == IF Head(t) = "-" THEN 0 - DigitsVal(Tail(t)) ELSE DigitsVal(t)

\* str(n) for a natural number.
RECURSIVE NatText(_)
NatText(n) ==
    IF n < 10 THEN <<DigitChar(n)>>
    ELSE NatText(n \div 10) \o <<DigitChar(n % 10)>>

\* str(n) for an int.
IntText(n) == IF n < 0 THEN <<"-">> \o NatText(0 - n) ELSE NatText(n)

\* str(x) for a float holding the integer n: "6.0".
FloatText(n) == IntText(n) \o <<".", "0">>

NanText == <<"n", "a", "n">>

\* n zero-padded to w digits (strftime's %Y, %m, %d, %H, %M, %S).
RECURSIVE Pad(_, _)
Pad(n, w) ==
    IF w = 0 THEN <<>> ELSE Pad(n \div 10, w - 1) \o <<DigitChar(n % 10)>>

(***************************************************************************)
(* Timestamps                                                              *)
(***************************************************************************)

\* A parsed timestamp is <<year, month, day, hour, minute, second>>.
Num2(t, i) == DigitsVal(SubSeq(t, i, i + 1))

\* The timestamps of a scan file are written "YYYY-MM-DD HH:MM:SS"; any
\* other text of the files checked here is one pd.to_datetime cannot parse.
IsTsText(t) ==
    /\ Len(t) = 19
    /\ \A i \in {1, 2, 3, 4, 6, 7, 9, 10, 12, 13, 15, 16, 18, 19} : IsDigit(t[i])
    /\ t[5] = "-" /\ t[8] = "-" /\ t[11] = " " /\ t[14] = ":" /\ t[17] = ":"
    /\ Num2(t, 6) \in 1..12 /\ Num2(t, 9) \in 1..31
    /\ Num2(t, 12) < 24 /\ Num2(t, 15) < 60 /\ Num2(t, 18) < 60

ParseTs(t) ==
    <<DigitsVal(SubSeq(t, 1, 4)), Num2(t, 6), Num2(t, 9), Num2(t, 12),
      Num2(t, 15), Num2(t, 18)>>

\* a < b for two timestamps.
RECURSIVE TsLess(_, _)
TsLess(a, b) ==
    IF a = <<>> THEN FALSE
    ELSE IF Head(a) = Head(b) THEN TsLess(Tail(a), Tail(b))
    ELSE Head(a) < Head(b)

\* ts.strftime("%Y-%m-%d %H:%M:%S")
Strftime(ts) ==
    Pad(ts[1], 4) \o <<"-">> \o Pad(ts[2], 2) \o <<"-">> \o Pad(ts[3], 2)
      \o <<" ">> \o Pad(ts[4], 2) \o <<":">> \o Pad(ts[5], 2) \o <<":">>
      \o Pad(ts[6], 2)

NaT == [na |-> TRUE, v |-> <<>>]

NaN == [na |-> TRUE, v |-> 0]

(***************************************************************************)
(* pd.read_csv: every cell of the file is text; an empty cell is missing,  *)
(* and the dtype of a column is inferred from all of its cells.            *)
(***************************************************************************)

Expected == <<"timestamp", "ssid", "bssid", "channel", "rssi">>

ExpectedSet == {Expected[i] : i \in 1..Len(Expected)}

Cells(rows, c) == {rows[i][c] : i \in 1..Len(rows)}

\* int64: every cell is an integer; float64: integers and missing cells (or
\* only missing cells); object: the header alone, or some cell is other text.
InferDtype(rows, c) ==
    LET present == Cells(rows, c) \ {<<>>}
    IN  IF rows = <<>> THEN "object"
        ELSE IF \E t \in present : ~IsIntText(t) THEN "object"
        ELSE IF <<>> \in Cells(rows, c) THEN "float64"
        ELSE "int64"

\* A cell of a data frame: missing, a number (int64, float64) or a str.
ReadCell(dtype, t) ==
    IF t = <<>> THEN [na |-> TRUE, num |-> 0, str |-> <<>>]
    ELSE IF dtype = "object" THEN [na |-> FALSE, num |-> 0, str |-> t]
    ELSE [na |-> FALSE, num |-> ParseInt(t), str |-> <<>>]

read_csv(header, rows) ==
    LET dt == [c \in header |-> InferDtype(rows, c)]
    IN  [columns |-> header,
         dtype   |-> dt,
         rows    |-> [i \in 1..Len(rows) |->
                        [c \in header |-> ReadCell(dt[c], rows[i][c])]]]

\* str(x) of one non-missing cell, as Series.astype(str) gives it.
CellStr(dtype, cell) ==
    IF dtype = "object" THEN cell.str
    ELSE IF dtype = "int64" THEN IntText(cell.num)
    ELSE FloatText(cell.num)

\* Series.astype(str): a missing cell becomes the text "nan".
astype_str(dtype, cell) == IF cell.na THEN NanText ELSE CellStr(dtype, cell)

\* Series.fillna("").astype(str)
fillna_str(dtype, cell) == IF cell.na THEN <<>> ELSE CellStr(dtype, cell)

\* pd.to_datetime(errors="coerce") of one cell of a text column.
to_datetime(dtype, cell) ==
    IF cell.na \/ dtype # "object" \/ ~IsTsText(cell.str) THEN NaT
    ELSE [na |-> FALSE, v |-> ParseTs(cell.str)]

\* pd.to_numeric(errors="coerce") of one cell.
to_numeric(dtype, cell) ==
    IF cell.na THEN NaN
    ELSE IF dtype # "object" THEN [na |-> FALSE, v |-> cell.num]
    ELSE IF IsIntText(cell.str) THEN [na |-> FALSE, v |-> ParseInt(cell.str)]
    ELSE NaN

(***************************************************************************)
(* report/generate_report.py                                               *)
(***************************************************************************)

\* missing = [c for c in expected if c not in df.columns]
MissingColumns(header) ==
    SelectSeq(Expected, LAMBDA c : c \notin header)

\* The normalized rows of load_scan, for a frame that has the five columns.
load_scan(df) ==
    [i \in 1..Len(df.rows) |->
        LET r == df.rows[i]
        IN  [timestamp |-> to_datetime(df.dtype["timestamp"], r["timestamp"]),
             ssid      |-> fillna_str(df.dtype["ssid"], r["ssid"]),
             bssid     |-> fillna_str(df.dtype["bssid"], r["bssid"]),
             channel   |-> astype_str(df.dtype["channel"], r["channel"]),
             rssi      |-> to_numeric(df.dtype["rssi"], r["rssi"])]]

\* The values of a sequence that are not missing, as a sequence.
Present(cells) == SelectSeq(cells, LAMBDA x : ~x.na)

RECURSIVE SumSeq(_)
SumSeq(s) == IF s = <<>> THEN 0 ELSE Head(s).v + SumSeq(Tail(s))

Values(cells) == {cells[i].v : i \in 1..Len(cells)}

\* min, max and mean of a numeric column: missing values are skipped, and a
\* column with no value gives a missing result.  The mean is kept exact, as
\* the sum and the count of the values.
NumMin(cells) ==
    LET p == Values(Present(cells))
    IN  IF p = {} THEN NaN
        ELSE [na |-> FALSE, v |-> CHOOSE x \in p : \A y \in p : x <= y]

\* max that reads a missing value as 0.
NumMaxNanAsZero(cells) ==
    [na |-> FALSE,
     v  |-> CHOOSE x \in Values(cells) : \A y \in Values(cells) : x >= y]

NumMax(cells) ==
    LET p == Values(Present(cells))
    IN  IF p = {} THEN NaN
        ELSE [na |-> FALSE, v |-> CHOOSE x \in p : \A y \in p : x >= y]

\* mean that divides by the number of rows, missing values included.
NumMeanOverRows(cells) ==
    IF Present(cells) = <<>> THEN [na |-> TRUE, sum |-> 0, count |-> 0]
    ELSE [na |-> FALSE, sum |-> SumSeq(Present(cells)), count |-> Len(cells)]

NumMean(cells) ==
    LET p == Present(cells)
    IN  IF p = <<>> THEN [na |-> TRUE, sum |-> 0, count |-> 0]
        ELSE [na |-> FALSE, sum |-> SumSeq(p), count |-> Len(p)]

\* min and max of a datetime column, NaT skipped.
TsMin(cells) ==
    LET p == Values(Present(cells))
    IN  IF p = {} THEN NaT
        ELSE [na |-> FALSE, v |-> CHOOSE x \in p : \A y \in p \ {x} : TsLess(x, y)]

TsMax(cells) ==
    LET p == Values(Present(cells))
    IN  IF p = {} THEN NaT
        ELSE [na |-> FALSE, v |-> CHOOSE x \in p : \A y \in p \ {x} : TsLess(y, x)]

Column(rows, c) == [i \in 1..Len(rows) |-> rows[i][c]]

\* frames=("bssid", "size"): the number of rows of the group.
GroupSize(rows) == Len(rows)

\* ", ".join(sorted({x for x in s if x}))
JoinDistinct(texts) ==
    Join(SortedTexts({texts[i] : i \in 1..Len(texts)} \ {<<>>}))

\* One row of the aggregate, for the rows of one bssid.
Aggregate(key, rows) ==
    [bssid      |-> key,
     frames     |-> GroupSize(rows),
     first_seen |-> TsMin(Column(rows, "timestamp")),
     last_seen  |-> TsMax(Column(rows, "timestamp")),
     min_rssi   |-> NumMin(Column(rows, "rssi")),
     avg_rssi   |-> NumMean(Column(rows, "rssi")),
     max_rssi   |-> NumMax(Column(rows, "rssi")),
     ssids      |-> JoinDistinct(Column(rows, "ssid")),
     channels   |-> JoinDistinct(Column(rows, "channel"))]

\* sort_values(["frames", "bssid"], ascending=[False, True])
SummaryBefore(a, b) ==
    \/ a.frames > b.frames
    \/ a.frames = b.frames /\ LexLess(a.bssid, b.bssid)

RECURSIVE SortSummaries(_)
SortSummaries(S) ==
    IF S = {} THEN <<>>
    ELSE LET m == CHOOSE x \in S : \A y \in S \ {x} : SummaryBefore(x, y)
         IN  <<m>> \o SortSummaries(S \ {m})

\* groupby that loses the rows of the unknown device.
GroupKeysDropEmpty(rows) == {rows[i].bssid : i \in 1..Len(rows)} \ {<<>>}

\* df.groupby("bssid", dropna=False): after load_scan no bssid is missing,
\* and the empty text is a key like any other.
GroupKeys(rows) == {rows[i].bssid : i \in 1..Len(rows)}

summarize(rows) ==
    SortSummaries({Aggregate(k, SelectSeq(rows, LAMBDA r : r.bssid = k)) :
                     k \in GroupKeys(rows)})

(***************************************************************************)
(* build_pdf: the totals, the time range and the cells of the MAC table.   *)
(***************************************************************************)

Unknown == <<"(", "u", "n", "k", "n", "o", "w", "n", ")">>

SsidDisplayWidth == 40

\* fmt_ts without its pd.notna test: NaT is printed as pandas names it.
fmt_ts_unguarded(ts) == IF ts.na THEN <<"N", "a", "T">> ELSE Strftime(ts.v)

\* fmt_ts
fmt_ts(ts) == IF ts.na THEN <<>> ELSE Strftime(ts.v)

\* f"{x:.0f}" if pd.notna(x) else "", for x holding an integer.
fmt_int(x) == IF x.na THEN <<>> ELSE IntText(x.v)

\* sum/count in tenths, rounded half to even, for sum >= 0.  The halves that
\* occur for fewer than 20 values are quarters, which a float holds exactly.
RoundTenths(sum, count) ==
    LET q == (10 * sum) \div count
        r == (10 * sum) % count
    IN  IF 2 * r > count \/ (2 * r = count /\ q % 2 = 1) THEN q + 1 ELSE q

\* The text of a float with one decimal, from its tenths.
TenthsText(neg, tenths) ==
    (IF neg THEN <<"-">> ELSE <<>>)
      \o NatText(tenths \div 10) \o <<".">> \o <<DigitChar(tenths % 10)>>

\* f"{x:.1f}" if pd.notna(x) else ""
fmt_avg(x) ==
    IF x.na THEN <<>>
    ELSE IF x.sum < 0 THEN TenthsText(TRUE, RoundTenths(0 - x.sum, x.count))
    ELSE TenthsText(FALSE, RoundTenths(x.sum, x.count))

\* One row of the MAC table, for the i-th summary.
TableRow(i, row) ==
    [num        |-> i,
     bssid      |-> IF row.bssid = <<>> THEN Unknown ELSE row.bssid,
     ssids      |-> Take(row.ssids, SsidDisplayWidth),
     frames     |-> row.frames,
     first_seen |-> fmt_ts(row.first_seen),
     last_seen  |-> fmt_ts(row.last_seen),
     min_rssi   |-> fmt_int(row.min_rssi),
     avg_rssi   |-> fmt_avg(row.avg_rssi),
     max_rssi   |-> fmt_int(row.max_rssi),
     channels   |-> row.channels]

\* df["ssid"].replace("", pd.NA).dropna().nunique()
UniqueSsids(rows) == Cardinality({rows[i].ssid : i \in 1..Len(rows)} \ {<<>>})

NoError == [type |-> "none", names |-> <<>>]

NoReport ==
    [summary |-> <<>>, unique_macs |-> 0, unique_ssids |-> 0,
     total_frames |-> 0, min_ts |-> <<>>, max_ts |-> <<>>, table |-> <<>>]

\* What a run of the report leaves: the SystemExit of load_scan and nothing
\* else, or the frame it loaded and everything the document is built from.
build_pdf(header, file) ==
    IF MissingColumns(header) # <<>>
    THEN [kind |-> "report", arg |-> <<>>,
          err |-> [type |-> "SystemExit", names |-> MissingColumns(header)],
          df |-> <<>>, out |-> NoReport]
    ELSE LET df      == load_scan(read_csv(header, file))
             summary == summarize(df)
         IN  [kind |-> "report", arg |-> <<>>, err |-> NoError, df |-> df,
              out |-> [summary      |-> summary,
                       unique_macs  |-> Len(summary),
                       unique_ssids |-> UniqueSsids(df),
                       total_frames |-> Len(df),
                       min_ts       |-> fmt_ts(TsMin(Column(df, "timestamp"))),
                       max_ts       |-> fmt_ts(TsMax(Column(df, "timestamp"))),
                       table        |-> [i \in 1..Len(summary) |->
                                           TableRow(i, summary[i])]]]

(***************************************************************************)
(* web/app.py (pandas 2.x: a text column is an object column in which a    *)
(* missing cell is a float NaN)                                            *)
(***************************************************************************)

\* load_df: the frame as read, nothing checked and nothing normalized.
load_df(header, file) == read_csv(header, file)

\* q.strip()
RECURSIVE LStrip(_)
LStrip(t) == IF t # <<>> /\ Head(t) = " " THEN LStrip(Tail(t)) ELSE t

RECURSIVE RStrip(_)
RStrip(t) ==
    IF t # <<>> /\ t[Len(t)] = " " THEN RStrip(SubSeq(t, 1, Len(t) - 1)) ELSE t

Strip(t) == RStrip(LStrip(t))

\* One pattern character against one character of the text, ignoring case:
\* "." matches any character, a letter or digit matches itself.
RegexCharMatch(p, c) == p = "." \/ Lower(p) = Lower(c)

\* re.search(q, text, re.IGNORECASE): str.contains reads q as a regular
\* expression.  The patterns searched here are made of letters, digits and
\* ".", which all of them compile.
RegexSearch(q, text) ==
    \E off \in 0..(Len(text) - Len(q)) :
        \A i \in 1..Len(q) : RegexCharMatch(q[i], text[off + i])

\* df["ssid"].fillna("").str.contains(q, case=False, na=False), one cell.
\* A missing cell is searched as "", a number in a column of numbers and
\* missing cells is no str and gives na=False.
str_contains(dtype, cell, q) ==
    IF cell.na THEN RegexSearch(q, <<>>)
    ELSE dtype = "object" /\ RegexSearch(q, cell.str)


\* The sequences that hold each element of S once, with `frames`
\* non-increasing: what sort_values(..., ascending=False) may return.  Its
\* default sort is numpy's quicksort, which keeps no order among equal keys.
DescendingOrders(S) ==
    {o \in [1..Cardinality(S) -> S] :
        /\ \A i, j \in 1..Cardinality(S) : i # j => o[i] # o[j]
        /\ \A i \in 1..(Cardinality(S) - 1) : o[i].frames >= o[i + 1].frames}

\* df.groupby("ssid").size(), the frames of each ssid: a missing ssid is in
\* no group.
SsidCounts(df, rows) ==
    LET keys == {rows[i]["ssid"] : i \in 1..Len(rows)}
    IN  {[ssid   |-> CellStr(df.dtype["ssid"], k),
          frames |-> Len(SelectSeq(rows, LAMBDA r : r["ssid"] = k))] :
            k \in {c \in keys : ~c.na}}

SsidCountOrders(df, rows) == DescendingOrders(SsidCounts(df, rows))

\* The rows index keeps: all of them, or those whose ssid the pattern finds.
IndexFilter(df, q) ==
    IF q = <<>> THEN df.rows
    ELSE SelectSeq(df.rows, LAMBDA r : str_contains(df.dtype["ssid"], r["ssid"], q))

\* The error of index, if it raises one.
IndexError(header, file, q) ==
    IF "ssid" \notin header THEN [type |-> "KeyError", names |-> <<"ssid">>]
    ELSE IF q # <<>> /\ load_df(header, file).dtype["ssid"] = "int64"
    THEN [type |-> "AttributeError", names |-> <<>>]
    ELSE NoError

\* index with ?q=arg: the (ssid, count) pairs of the listing, in the order
\* `ssids`; no table of MACs is made (macs=None).
index(header, file, arg, ssids) ==
    LET q   == Strip(arg)
        err == IndexError(header, file, q)
    IN  IF err # NoError
        THEN [kind |-> "index", arg |-> arg, err |-> err, df |-> <<>>,
              out |-> [ssids |-> <<>>, macs_made |-> FALSE, macs |-> <<>>,
                       agg |-> <<>>]]
        ELSE [kind |-> "index", arg |-> arg, err |-> NoError,
              df |-> IndexFilter(load_df(header, file), q),
              out |-> [ssids |-> ssids, macs_made |-> FALSE, macs |-> <<>>,
                       agg |-> <<>>]]

IndexOrders(header, file, arg) ==
    IF IndexError(header, file, Strip(arg)) # NoError THEN {<<>>}
    ELSE LET df == load_df(header, file)
         IN  SsidCountOrders(df, IndexFilter(df, Strip(arg)))

\* df[df["ssid"].fillna("") == ssid]: a str equals only a str.
SsidFilter(df, ssid) ==
    SelectSeq(df.rows, LAMBDA r :
        IF r["ssid"].na THEN ssid = <<>>
        ELSE df.dtype["ssid"] = "object" /\ r["ssid"].str = ssid)

\* df.groupby("bssid"): dropna is left at True, a missing bssid is in no group.
WebGroupKeys(rows) == {c \in {rows[i]["bssid"] : i \in 1..Len(rows)} : ~c.na}

MissingCell == [na |-> TRUE, num |-> 0, str |-> <<>>]

\* min of the cells of one group: of the numbers of a numeric column, of the
\* texts of an object column.
ColMin(dtype, cells) ==
    LET p == {c \in {cells[i] : i \in 1..Len(cells)} : ~c.na}
    IN  IF p = {} THEN MissingCell
        ELSE IF dtype = "object"
        THEN CHOOSE x \in p : \A y \in p \ {x} : LexLess(x.str, y.str)
        ELSE CHOOSE x \in p : \A y \in p : x.num <= y.num

ColMax(dtype, cells) ==
    LET p == {c \in {cells[i] : i \in 1..Len(cells)} : ~c.na}
    IN  IF p = {} THEN MissingCell
        ELSE IF dtype = "object"
        THEN CHOOSE x \in p : \A y \in p \ {x} : LexLess(y.str, x.str)
        ELSE CHOOSE x \in p : \A y \in p : x.num >= y.num

\* mean of the numbers of one group of a numeric column.
ColMean(cells) ==
    NumMean([i \in 1..Len(cells) |-> [na |-> cells[i].na, v |-> cells[i].num]])

\* min or max of an object column compares a str with the float that stands
\* for a missing cell: TypeError.
MixedGroup(dtype, cells) ==
    /\ dtype = "object"
    /\ \E i \in 1..Len(cells) : cells[i].na
    /\ \E i \in 1..Len(cells) : ~cells[i].na

\* ", ".join(sorted(set(s.astype(str))))
WebChannels(dtype, cells) ==
    Join(SortedTexts({astype_str(dtype, cells[i]) : i \in 1..Len(cells)}))

\* One row of agg, for the rows of one bssid.
WebAggregate(df, key, rows) ==
    [bssid      |-> CellStr(df.dtype["bssid"], key),
     frames     |-> GroupSize(rows),
     first_seen |-> ColMin(df.dtype["timestamp"], Column(rows, "timestamp")),
     last_seen  |-> ColMax(df.dtype["timestamp"], Column(rows, "timestamp")),
     min_rssi   |-> ColMin(df.dtype["rssi"], Column(rows, "rssi")),
     avg_rssi   |-> ColMean(Column(rows, "rssi")),
     max_rssi   |-> ColMax(df.dtype["rssi"], Column(rows, "rssi")),
     channels   |-> WebChannels(df.dtype["channel"], Column(rows, "channel"))]

GroupRows(rows, key) == SelectSeq(rows, LAMBDA r : r["bssid"] = key)

WebAgg(df, rows) ==
    {WebAggregate(df, k, GroupRows(rows, k)) : k \in WebGroupKeys(rows)}

\* The columns agg names and the frame lacks, as its KeyError lists them.
AggMissing(header) ==
    SelectSeq(<<"channel", "rssi", "timestamp">>, LAMBDA c : c \notin header)

\* The error of ssid_view, if it raises one.
SsidViewError(header, file, ssid) ==
    IF "ssid" \notin header THEN [type |-> "KeyError", names |-> <<"ssid">>]
    ELSE IF "bssid" \notin header THEN [type |-> "KeyError", names |-> <<"bssid">>]
    ELSE IF AggMissing(header) # <<>>
    THEN [type |-> "KeyError", names |-> AggMissing(header)]
    ELSE LET df   == load_df(header, file)
             rows == SsidFilter(df, ssid)
         IN  IF \E k \in WebGroupKeys(rows) :
                   \/ MixedGroup(df.dtype["timestamp"],
                                 Column(GroupRows(rows, k), "timestamp"))
                   \/ df.dtype["rssi"] = "object"
             THEN [type |-> "TypeError", names |-> <<>>]
             ELSE NoError

\* str(x) as the template prints a value of agg.
JinjaStr(dtype, cell) == astype_str(dtype, cell)

\* round(r["avg_rssi"], 1) if pd.notna(r["avg_rssi"]) else "", printed.
WebAvgText(x) ==
    IF x.na THEN <<>>
    ELSE TenthsText(x.sum < 0,
                    RoundTenths(IF x.sum < 0 THEN 0 - x.sum ELSE x.sum, x.count))

\* One dict of `rows`, as the template prints it.
WebRow(df, r) ==
    [bssid      |-> r.bssid,
     frames     |-> r.frames,
     first_seen |-> JinjaStr(df.dtype["timestamp"], r.first_seen),
     last_seen  |-> JinjaStr(df.dtype["timestamp"], r.last_seen),
     channels   |-> r.channels,
     min_rssi   |-> JinjaStr(df.dtype["rssi"], r.min_rssi),
     avg_rssi   |-> WebAvgText(r.avg_rssi),
     max_rssi   |-> JinjaStr(df.dtype["rssi"], r.max_rssi)]

\* agg.sort_values("frames", ascending=False): the orders it may return.
WebAggOrders(header, file, ssid) ==
    IF SsidViewError(header, file, ssid) # NoError THEN {<<>>}
    ELSE LET df == load_df(header, file)
         IN  DescendingOrders(WebAgg(df, SsidFilter(df, ssid)))

SsidViewOrders(header, file, ssid) ==
    IF SsidViewError(header, file, ssid) # NoError THEN {<<>>}
    ELSE LET df == load_df(header, file)
         IN  SsidCountOrders(df, SsidFilter(df, ssid))

\* ssid_view for /ssid/<ssid>: agg in the order `agg`, the dicts made of it,
\* and the (ssid, count) pairs in the order `ssids`.
ssid_view(header, file, ssid, agg, ssids) ==
    LET err == SsidViewError(header, file, ssid)
    IN  IF err # NoError
        THEN [kind |-> "ssid_view", arg |-> ssid, err |-> err, df |-> <<>>,
              out |-> [ssids |-> <<>>, macs_made |-> FALSE, macs |-> <<>>,
                       agg |-> <<>>]]
        ELSE LET df == load_df(header, file)
             IN  [kind |-> "ssid_view", arg |-> ssid, err |-> NoError,
                  df |-> SsidFilter(df, ssid),
                  out |-> [ssids |-> ssids, macs_made |-> TRUE,
                           macs |-> [i \in 1..Len(agg) |-> WebRow(df, agg[i])],
                           agg |-> agg]]

(***************************************************************************)
(* The scan files and requests that are checked                            *)
(***************************************************************************)

MaxRows == 3

T1 == <<"2", "0", "2", "4", "-", "0", "1", "-", "0", "2", " ",
        "1", "0", ":", "0", "0", ":", "0", "0">>

T2 == <<"2", "0", "2", "4", "-", "0", "1", "-", "0", "2", " ",
        "0", "9", ":", "5", "9", ":", "3", "0">>

Soon == <<"s", "o", "o", "n">>

Cafe == <<"C", "a", "f", "e">>

Bar == <<"B", "a", "r">>

MacB == <<"A", "A", ":", "B", "B">>

MacC == <<"A", "A", ":", "C", "C">>

Weak == <<"w", "e", "a", "k">>

Row(ts, ssid, bssid, channel, rssi) ==
    [timestamp |-> ts, ssid |-> ssid, bssid |-> bssid, channel |-> channel,
     rssi |-> rssi]

\* Rows that differ in what the statistics read: the device (known or not),
\* the timestamp and the signal strength (good, unparsable, missing); and
\* the row of five empty cells.
StatsRows ==
    {Row(x[1], Cafe, b, <<"6">>, x[2]) :
        b \in {<<>>, MacB},
        x \in {<<T1, <<"-", "4", "0">>>>, <<T2, <<"-", "6", "1">>>>,
               <<Soon, Weak>>, <<<<>>, <<>>>>}}
      \cup {Row(<<>>, <<>>, <<>>, <<>>, <<>>)}

\* Rows that differ in what grouping, filtering and the text sets read: the
\* device, the network name and the channel.
TextRows ==
    {Row(T1, x[1], b, x[2], <<"-", "4", "0">>) :
        b \in {<<>>, MacB, MacC},
        x \in {<<Cafe, <<"6">>>>, <<<<>>, <<"1", "1">>>>, <<Bar, <<>>>>}}

\* A column that no code reads; with it no header is empty (pd.read_csv
\* reads no file without a header).
Vendor == <<"A", "c", "m", "e">>

Headers == {h \cup {"vendor"} : h \in SUBSET ExpectedSet}

\* Two rows, cut down to the columns of a header.
SchemaRows(header) ==
    {[c \in header |-> IF c = "vendor" THEN Vendor ELSE r[c]] :
        r \in {Row(T1, Cafe, MacB, <<"6">>, <<"-", "4", "0">>),
               Row(<<>>, <<>>, <<>>, <<>>, <<>>)}}

\* The files of at most MaxRows rows.
Files(rows) == UNION {[1..n -> rows] : n \in 0..MaxRows}

\* ?q= of index.
Queries == {<<>>, <<"c", "a", "f">>, <<"z", "z", "z">>, <<"c", ".", "f">>}

\* /ssid/<ssid>: the path segment is never empty.
SsidArgs == {Cafe, <<"c", "a", "f">>, <<"z", "z", "z">>}

Idle ==
    [kind |-> "idle", arg |-> <<>>, err |-> NoError, df |-> <<>>, out |-> <<>>]

\* One run of the report, or one request, at a time: each loads the file
\* anew, and nothing of it is kept once it has ended.
BuildPdf == /\ resp.kind = "idle"
            /\ resp' = build_pdf(cols, csv)
            /\ UNCHANGED <<cols, csv>>

Index == /\ resp.kind = "idle"
         /\ \E q \in Queries : \E ssids \in IndexOrders(cols, csv, q) :
               resp' = index(cols, csv, q, ssids)
         /\ UNCHANGED <<cols, csv>>

SsidView ==
    /\ resp.kind = "idle"
    /\ \E ssid \in SsidArgs :
       \E agg \in WebAggOrders(cols, csv, ssid) :
       \E ssids \in SsidViewOrders(cols, csv, ssid) :
           resp' = ssid_view(cols, csv, ssid, agg, ssids)
    /\ UNCHANGED <<cols, csv>>

Finish == /\ resp.kind # "idle"
          /\ resp' = Idle
          /\ UNCHANGED <<cols, csv>>

Next == BuildPdf \/ Index \/ SsidView \/ Finish

Init == /\ cols = ExpectedSet
        /\ csv \in Files(StatsRows)
        /\ resp = Idle

InitText == /\ cols = ExpectedSet
            /\ csv \in Files(TextRows)
            /\ resp = Idle

InitSchema == /\ cols \in Headers
              /\ csv \in Files(SchemaRows(cols))
              /\ resp = Idle

Spec == Init /\ [][Next]_vars

SpecText == InitText /\ [][Next]_vars

SpecSchema == InitSchema /\ [][Next]_vars

(***************************************************************************)
(* Properties                                                              *)
(***************************************************************************)

\* The report ran to its end on a file that has the five columns.
Reported == resp.kind = "report" /\ resp.err = NoError

\* ssid_view ran to its end.
Viewed == resp.kind = "ssid_view" /\ resp.err = NoError

RECURSIVE FrameSum(_)
FrameSum(summary) ==
    IF summary = <<>> THEN 0 ELSE Head(summary).frames + FrameSum(Tail(summary))

\* The rows of the file whose bssid cell is the text b ("" when empty).
FileRowsOf(b) == {i \in 1..Len(csv) : csv[i]["bssid"] = b}

\* C1: when the file has the five columns, load_scan and summarize raise
\* nothing, the frame counts of the summaries add up to the number of rows of
\* the file, and every row (whatever cells it lacks) is counted in exactly
\* one summary, that of its bssid.
FramesSumToRowCount ==
    (resp.kind = "report" /\ MissingColumns(cols) = <<>>) =>
        /\ resp.err = NoError
        /\ FrameSum(resp.out.summary) = Len(csv)
        /\ \A i \in 1..Len(csv) :
              Cardinality({k \in 1..Len(resp.out.summary) :
                              resp.out.summary[k].bssid = csv[i]["bssid"]}) = 1
        /\ \A k \in 1..Len(resp.out.summary) :
              resp.out.summary[k].frames =
                  Cardinality(FileRowsOf(resp.out.summary[k].bssid))

\* A report of a file in which a row of five empty cells sits beside rows of
\* a known device.
FramesSumWitness ==
    /\ Reported
    /\ Len(resp.out.summary) >= 2
    /\ \E i \in 1..Len(csv) : \A c \in cols : csv[i][c] = <<>>
    /\ \E i \in 1..Len(csv) : csv[i]["timestamp"] = Soon /\ csv[i]["rssi"] = Weak

\* The file without its i-th row.
WithoutRow(file, i) ==
    [j \in 1..(Len(file) - 1) |-> IF j < i THEN file[j] ELSE file[j + 1]]

\* The five statistics of a summary.
Stats(g) == <<g.first_seen, g.last_seen, g.min_rssi, g.avg_rssi, g.max_rssi>>

NoStats == <<NaT, NaT, NaN, [na |-> TRUE, sum |-> 0, count |-> 0], NaN>>

\* The rssi values and timestamps of the file's rows of device b that parse.
GoodRssi(b) == {i \in FileRowsOf(b) : IsIntText(csv[i]["rssi"])}

GoodTs(b) == {i \in FileRowsOf(b) : IsTsText(csv[i]["timestamp"])}

MeanWithin(lo, avg, hi) ==
    lo * avg.count <= avg.sum /\ avg.sum <= hi * avg.count

EmptyFileIsValid ==
    (resp.kind = "report" /\ MissingColumns(cols) = <<>> /\ csv = <<>>) =>
        /\ resp.err = NoError
        /\ Len(resp.out.summary) = 0
        /\ Len(resp.out.table) = 0
        /\ resp.out.unique_macs = 0
        /\ resp.out.unique_ssids = 0
        /\ resp.out.total_frames = 0
        /\ resp.out.min_ts = <<>>
        /\ resp.out.max_ts = <<>>

\* The report has run on the file that holds the header alone.
EmptyFileWitness == Reported /\ csv = <<>> /\ cols = ExpectedSet

\* The files that hold the rows of `file` in another order.
Reorderings(file) ==
    {[i \in 1..Len(file) |-> file[p[i]]] :
        p \in {q \in [1..Len(file) -> 1..Len(file)] :
                  \A i, j \in 1..Len(file) : i # j => q[i] # q[j]}}

\* C2: the summaries of the report and of ssid_view are in the order of
\* frame count descending and, for equal frame counts, bssid ascending; and
\* the report of the same rows in any other order has the same summaries in
\* the same order.
SummariesInOrder ==
    /\ Reported =>
          /\ \A i, j \in 1..Len(resp.out.summary) :
                i < j => SummaryBefore(resp.out.summary[i], resp.out.summary[j])
          /\ \A f \in Reorderings(csv) :
                summarize(load_scan(read_csv(cols, f))) = resp.out.summary
    /\ Viewed =>
          \A i, j \in 1..Len(resp.out.agg) :
              i < j => SummaryBefore(resp.out.agg[i], resp.out.agg[j])

\* The columns named by the error of the run or request.
NamedColumns == {resp.err.names[i] : i \in 1..Len(resp.err.names)}

\* C3: when the file lacks some of the five columns, the report and every
\* request fail with an error that names exactly the columns that are
\* absent, and give no summary and no listing.
MissingColumnsNamedExactly ==
    (resp.kind # "idle" /\ ExpectedSet \ cols # {}) =>
        /\ resp.err # NoError
        /\ NamedColumns = ExpectedSet \ cols
        /\ resp.kind = "report" => resp.out = NoReport
        /\ resp.kind # "report" =>
              (resp.out.ssids = <<>> /\ resp.out.macs = <<>> /\ resp.out.agg = <<>>)

\* C4: the report and ssid_view give one summary for each distinct bssid of
\* the rows they aggregate, the empty text standing for a missing bssid.
EveryBssidIsAGroup ==
    /\ Reported =>
          /\ {resp.out.summary[k].bssid : k \in 1..Len(resp.out.summary)}
                = {csv[i]["bssid"] : i \in 1..Len(csv)}
          /\ Len(resp.out.summary) = Cardinality({csv[i]["bssid"] : i \in 1..Len(csv)})
    /\ Viewed =>
          /\ {resp.out.agg[k].bssid : k \in 1..Len(resp.out.agg)}
                = {resp.df[i]["bssid"].str : i \in 1..Len(resp.df)}
          /\ Len(resp.out.agg)
                = Cardinality({resp.df[i]["bssid"].str : i \in 1..Len(resp.df)})

\* The distinct non-empty texts of column c in the rows `rows` of the file,
\* sorted and joined.
SeenIn(rows, c) == Join(SortedTexts({csv[i][c] : i \in rows} \ {<<>>}))

\* C5: the ssid set and the channel set of a summary are the distinct
\* non-empty cells of its rows, sorted as text and joined with ", ": an
\* empty cell adds no element, neither "" nor a text standing for it.
TextSetsHoldSeenValues ==
    /\ Reported =>
          \A k \in 1..Len(resp.out.summary) :
              LET g == resp.out.summary[k]
              IN  /\ g.ssids = SeenIn(FileRowsOf(g.bssid), "ssid")
                  /\ g.channels = SeenIn(FileRowsOf(g.bssid), "channel")
    /\ Viewed =>
          \A k \in 1..Len(resp.out.agg) :
              LET g == resp.out.agg[k]
              IN  g.channels =
                      SeenIn({i \in FileRowsOf(g.bssid) : csv[i]["ssid"] = resp.arg},
                             "channel")

\* f occurs in t, letter case ignored.
ContainsIgnoreCase(f, t) ==
    \E off \in 0..(Len(t) - Len(f)) :
        \A i \in 1..Len(f) : Lower(f[i]) = Lower(t[off + i])

\* The rows of the file whose ssid contains f.
Selected(f) == {i \in 1..Len(csv) : ContainsIgnoreCase(f, csv[i]["ssid"])}

\* The per-device frame counts of the rows `rows` of the file.
DeviceCounts(rows) ==
    {<<b, Cardinality({i \in rows : csv[i]["bssid"] = b})>> :
        b \in {csv[i]["bssid"] : i \in rows}}

\* C6: a request of the viewer with an SSID filter raises nothing, keeps
\* exactly the rows whose ssid contains the filter (letter case ignored),
\* and returns the per-device summaries of exactly those rows: none when no
\* row is kept.
FilterSelectsBySubstring ==
    (resp.kind \in {"index", "ssid_view"} /\ Strip(resp.arg) # <<>>) =>
        LET sel == Selected(Strip(resp.arg))
        IN  /\ resp.err = NoError
            /\ Len(resp.df) = Cardinality(sel)
            /\ \A i \in 1..Len(resp.df) :
                  ContainsIgnoreCase(Strip(resp.arg), resp.df[i]["ssid"].str)
            /\ {<<resp.out.agg[k].bssid, resp.out.agg[k].frames>> :
                   k \in 1..Len(resp.out.agg)} = DeviceCounts(sel)

\* The text the report prints for a timestamp, an rssi bound and a bssid.
DisplayTs(na, text) ==
    IF na \/ ~IsTsText(text) THEN <<>> ELSE Strftime(ParseTs(text))

DisplayInt(na, n) == IF na THEN <<>> ELSE IntText(n)

DisplayBssid(b) == IF b = <<>> THEN Unknown ELSE b

\* C9: the report and the viewer print one aggregate value as one text: a
\* missing timestamp or rssi as the empty text, min_rssi and max_rssi as
\* integers, avg_rssi with one decimal, a timestamp as YYYY-MM-DD HH:MM:SS
\* and an empty bssid as "(unknown)".
SameValueSameText ==
    /\ Reported =>
          \A k \in 1..Len(resp.out.summary) :
              LET g == resp.out.summary[k]
                  t == resp.out.table[k]
              IN  /\ t.bssid = DisplayBssid(g.bssid)
                  /\ t.first_seen = (IF g.first_seen.na THEN <<>> ELSE Strftime(g.first_seen.v))
                  /\ t.last_seen = (IF g.last_seen.na THEN <<>> ELSE Strftime(g.last_seen.v))
                  /\ t.min_rssi = DisplayInt(g.min_rssi.na, g.min_rssi.v)
                  /\ t.max_rssi = DisplayInt(g.max_rssi.na, g.max_rssi.v)
                  /\ t.avg_rssi = fmt_avg(g.avg_rssi)
    /\ Viewed =>
          \A k \in 1..Len(resp.out.agg) :
              LET g == resp.out.agg[k]
                  t == resp.out.macs[k]
              IN  /\ t.bssid = DisplayBssid(g.bssid)
                  /\ t.first_seen = DisplayTs(g.first_seen.na, g.first_seen.str)
                  /\ t.last_seen = DisplayTs(g.last_seen.na, g.last_seen.str)
                  /\ t.min_rssi = DisplayInt(g.min_rssi.na, g.min_rssi.num)
                  /\ t.max_rssi = DisplayInt(g.max_rssi.na, g.max_rssi.num)
                  /\ t.avg_rssi = fmt_avg(g.avg_rssi)

====
